---- MODULE Spec2Model ----
(***************************************************************************)
(* Model of the assistant chat transport of the dashboard client (the Chat *)
(* component with the streaming endpoint): the send() pump that reads the  *)
(* chunked event stream, the dispatch of decoded events onto the messages  *)
(* list, clearConversation(), submitFeedback() and the effect on isLoading *)
(* that drives the latency display.                                        *)
(*                                                                         *)
(* Strings are sequences of characters (one-character tokens), so that     *)
(* concatenation, slicing, trimming and splitting are computed.  A byte of *)
(* the response body is a token too: an ASCII byte is written as its       *)
(* character, "LF" is the newline, "xC3" "xA9" are the two bytes of the    *)
(* character "E9".  The punctuation of a JSON text is abbreviated to one   *)
(* token per syntactic piece ("{d:" opens a delta object up to the opening *)
(* quote of its string, "}" closes the string and the object).             *)
(*                                                                         *)
(* State updates queued with setMessages(updater) are applied in program   *)
(* order at the place the code issues them.                                *)
(***************************************************************************)
EXTENDS Integers, Sequences, FiniteSets, TLC

\* ------------------------------------------------------------------ bounds
MaxSends == 2        \* accepted send() calls in one behaviour
MaxFrames == 2       \* frames in one generated response body
MaxRatedSends == 1   \* accepted send() calls in one behaviour of the feedback specification
MaxRates == 2        \* feedback POSTs in one behaviour of the feedback specification

\* --------------------------------------------------------------- constants
LF == "LF"
SP == " "
WELCOME == "welcome"
\* the text of INITIAL_ASSISTANT, one token, cut after its first sentence
GREETING == <<"Hi! Ask me about company fundamentals, earnings, scores, or vendor relationships.">>
FALLBACK_ERROR == <<"Error reaching API.">>
NO_RESPONSE == <<"I could not craft a response for that.">>
DATA_PREFIX == <<"d", "a", "t", "a", ":">>
NoLatency == 0 - 1

\* the ids createMessageId() returns, in call order (all distinct)
LocalIds == <<"local1", "local2", "local3", "local4">>

\* (mutant) the id generator returns the same id at every call
createMessageIdFixed(n) == LocalIds[1]

createMessageId(n) == LocalIds[n]

\* --------------------------------------------------------- string helpers
RECURSIVE Flatten(_)
Flatten(ss) == IF ss = <<>> THEN <<>> ELSE Head(ss) \o Flatten(Tail(ss))

IsSpace(c) == c \in {SP, LF}

RECURSIVE TrimStart(_)
TrimStart(s) ==
    IF s /= <<>> /\ IsSpace(Head(s)) THEN TrimStart(Tail(s)) ELSE s

RECURSIVE TrimEnd(_)
TrimEnd(s) ==
    IF s /= <<>> /\ IsSpace(s[Len(s)]) THEN TrimEnd(SubSeq(s, 1, Len(s) - 1)) ELSE s

\* String.prototype.trim
Trim(s) == TrimEnd(TrimStart(s))

\* buffer.indexOf('\n\n'), 1-based; 0 when there is none
IndexOfBoundary(buf) ==
    LET hits == {i \in 1..(Len(buf) - 1) : buf[i] = LF /\ buf[i + 1] = LF}
    IN IF hits = {} THEN 0 ELSE CHOOSE i \in hits : \A j \in hits : i <= j

\* rawEvent.split('\n')
RECURSIVE SplitLines(_, _)
SplitLines(s, cur) ==
    IF s = <<>> THEN <<cur>>
    ELSE IF Head(s) = LF THEN <<cur>> \o SplitLines(Tail(s), <<>>)
    ELSE SplitLines(Tail(s), Append(cur, Head(s)))

\* line.startsWith('data:')
StartsWithData(line) ==
    Len(line) >= Len(DATA_PREFIX) /\ SubSeq(line, 1, Len(DATA_PREFIX)) = DATA_PREFIX

\* lines.find(startsWith 'data:'): index of the first such line, 0 if none
FindDataLine(lines) ==
    LET hits == {i \in 1..Len(lines) : StartsWithData(lines[i])}
    IN IF hits = {} THEN 0 ELSE CHOOSE i \in hits : \A j \in hits : i <= j

\* ------------------------------------------------------------ TextDecoder
\* decoder.decode(value, {stream: true}): an incomplete multi-byte sequence
\* at the end of a chunk is kept in the decoder until the next chunk; an
\* invalid sequence decodes to the replacement character.
RECURSIVE Utf8(_, _, _)
Utf8(pend, bytes, out) ==
    IF bytes = <<>> THEN [text |-> out, pending |-> pend]
    ELSE LET b == Head(bytes) IN
         IF pend /= <<>>
         THEN IF b = "xA9" THEN Utf8(<<>>, Tail(bytes), Append(out, "E9"))
              ELSE Utf8(<<>>, bytes, Append(out, "FFFD"))
         ELSE IF b = "xC3" THEN Utf8(<<b>>, Tail(bytes), out)
         ELSE IF b = "xA9" THEN Utf8(<<>>, Tail(bytes), Append(out, "FFFD"))
         ELSE Utf8(<<>>, Tail(bytes), Append(out, b))

Decode(pend, bytes) == Utf8(pend, bytes, <<>>)

\* --------------------------------------------------------------- JSON.parse
\* The value of a parsed payload, in one record shape.  kind is "null" for
\* the literal null, "prim" for a number, "obj" for an object.
NoPayload ==
    [kind |-> "obj", type |-> "", deltaIsString |-> FALSE, delta |-> <<>>,
     hasData |-> FALSE, messageId |-> "", reply |-> <<>>, table |-> "",
     chart |-> "", sql |-> "", followups |-> <<>>, error |-> <<>>]

\* characters that may stand inside a JSON string
StringChars == {"a", "b", "d", "t", ":", SP, "E9", "FFFD", "AAPL", " is $190", "AAPL is $190.12", "R", "E", "x"}

\* JSON texts made of one token
JsonAtoms == {"{end}", "{ping}", "null", "1", "{d#}", "{r}", "{e}"}

AtomValue(tok) ==
    CASE tok = "{end}"  -> [NoPayload EXCEPT !.type = "end"]
      [] tok = "{ping}" -> [NoPayload EXCEPT !.type = "ping"]
      [] tok = "null"   -> [NoPayload EXCEPT !.kind = "null"]
      [] tok = "1"      -> [NoPayload EXCEPT !.kind = "prim"]
      [] tok = "{d#}"   -> [NoPayload EXCEPT !.type = "delta"]
      [] tok = "{r}"    -> [NoPayload EXCEPT !.type = "result"]
      [] tok = "{e}"    -> [NoPayload EXCEPT !.type = "error"]

\* JSON texts made of an opening token, the characters of one string, and "}"
JsonHeads == {"{d:", "{e:", "{r:", "{r.m1:", "{r.m2:", "{r.w:", "{r.m1+:"}

HeadValue(tok, str) ==
    CASE tok = "{d:"  -> [NoPayload EXCEPT !.type = "delta", !.deltaIsString = TRUE, !.delta = str]
      [] tok = "{e:"  -> [NoPayload EXCEPT !.type = "error", !.error = str]
      [] tok = "{r:"  -> [NoPayload EXCEPT !.type = "result", !.hasData = TRUE, !.reply = str]
      [] tok = "{r.m1:" -> [NoPayload EXCEPT !.type = "result", !.hasData = TRUE,
                                             !.messageId = "m1", !.reply = str]
      [] tok = "{r.m2:" -> [NoPayload EXCEPT !.type = "result", !.hasData = TRUE,
                                             !.messageId = "m2", !.reply = str]
      [] tok = "{r.w:" -> [NoPayload EXCEPT !.type = "result", !.hasData = TRUE,
                                            !.messageId = WELCOME, !.reply = str]
      [] tok = "{r.m1+:" -> [NoPayload EXCEPT !.type = "result", !.hasData = TRUE,
                                              !.messageId = "m1", !.reply = str,
                                              !.table = "T", !.chart = "C", !.sql = "Q",
                                              !.followups = << <<"more">> >>]

\* JSON.parse(jsonPayload): ok = FALSE stands for the SyntaxError
ParseJSON(p) ==
    IF Len(p) = 1 /\ p[1] \in JsonAtoms
    THEN [ok |-> TRUE, val |-> AtomValue(p[1])]
    ELSE IF /\ Len(p) >= 2
            /\ p[1] \in JsonHeads
            /\ p[Len(p)] = "}"
            /\ \A i \in 2..(Len(p) - 1) : p[i] \in StringChars
    THEN [ok |-> TRUE, val |-> HeadValue(p[1], SubSeq(p, 2, Len(p) - 1))]
    ELSE [ok |-> FALSE, val |-> NoPayload]

\* ---------------------------------------------------------------- messages
\* One record shape for both variants of Msg; the fields a UserMsg does not
\* have keep their empty value.  feedback "none" is null, latencyMs
\* NoLatency is undefined, "" is an absent table, chart or sql, <<>> is an
\* absent followups list.
UserMsg(text) ==
    [role |-> "user", id |-> "", text |-> text, prompt |-> <<>>, feedback |-> "none",
     table |-> "", chart |-> "", sql |-> "", followups |-> <<>>, latencyMs |-> NoLatency]

Placeholder(assistantId, prompt) ==
    [role |-> "assistant", id |-> assistantId, text |-> <<>>, prompt |-> prompt,
     feedback |-> "none", table |-> "", chart |-> "", sql |-> "", followups |-> <<>>,
     latencyMs |-> NoLatency]

INITIAL_ASSISTANT ==
    [role |-> "assistant", id |-> WELCOME, text |-> GREETING, prompt |-> <<>>,
     feedback |-> "none", table |-> "", chart |-> "", sql |-> "", followups |-> <<>>,
     latencyMs |-> NoLatency]

isAssistant(msg) == msg.role = "assistant"

\* the test of every prev.map: isAssistant(entry) && entry.id === id
Matches(entry, id) == isAssistant(entry) /\ entry.id = id

\* (mutant) appendDelta appends the running text to the text of the entry
DeltaUpdateAppending(msgs, currentAssistantId, streamingText) ==
    [i \in 1..Len(msgs) |->
        IF isAssistant(msgs[i]) /\ msgs[i].id = currentAssistantId
        THEN [msgs[i] EXCEPT !.text = msgs[i].text \o streamingText]
        ELSE msgs[i]]

\* (mutant) appendDelta keeps only the entries it updates
DeltaUpdateFiltering(msgs, currentAssistantId, streamingText) ==
    LET Hit(e) == isAssistant(e) /\ e.id = currentAssistantId
        kept == SelectSeq(msgs, Hit)
    IN [i \in 1..Len(kept) |-> [kept[i] EXCEPT !.text = streamingText]]

\* the setMessages call of appendDelta
DeltaUpdate(msgs, currentAssistantId, streamingText) ==
    [i \in 1..Len(msgs) |->
        IF Matches(msgs[i], currentAssistantId)
        THEN [msgs[i] EXCEPT !.text = streamingText]
        ELSE msgs[i]]

\* (mutant) the result branch keeps the placeholder id
ResultUpdateNoRekey(msgs, assistantId, currentAssistantId, finalText, data, latencyMs) ==
    [i \in 1..Len(msgs) |->
        IF isAssistant(msgs[i]) /\ msgs[i].id = assistantId
        THEN [msgs[i] EXCEPT !.text = finalText, !.table = data.table, !.chart = data.chart,
                             !.sql = data.sql, !.latencyMs = latencyMs,
                             !.followups = data.followups]
        ELSE msgs[i]]

\* the setMessages call of the result branch
ResultUpdate(msgs, assistantId, currentAssistantId, finalText, data, latencyMs) ==
    [i \in 1..Len(msgs) |->
        IF Matches(msgs[i], assistantId)
        THEN [msgs[i] EXCEPT !.id = currentAssistantId, !.text = finalText,
                             !.table = data.table, !.chart = data.chart, !.sql = data.sql,
                             !.latencyMs = latencyMs, !.followups = data.followups]
        ELSE msgs[i]]

\* (mutant) the failure is reported in a message of its own, appended
TextUpdateAppending(msgs, assistantId, text) ==
    Append(msgs, [Placeholder("", <<>>) EXCEPT !.text = text])

\* the setMessages call of the error branch and of the catch block
TextUpdate(msgs, assistantId, text) ==
    [i \in 1..Len(msgs) |->
        IF Matches(msgs[i], assistantId) THEN [msgs[i] EXCEPT !.text = text] ELSE msgs[i]]

\* (mutant) the rating is recorded on every assistant message
FeedbackUpdateAll(msgs, id, rating) ==
    [i \in 1..Len(msgs) |->
        IF isAssistant(msgs[i]) THEN [msgs[i] EXCEPT !.feedback = rating] ELSE msgs[i]]

\* the setMessages call of submitFeedback
FeedbackUpdate(msgs, id, rating) ==
    [i \in 1..Len(msgs) |->
        IF Matches(msgs[i], id) THEN [msgs[i] EXCEPT !.feedback = rating] ELSE msgs[i]]

\* ----------------------------------------------------------- the event pump
\* The locals of one send() call while it reads, together with the messages
\* list its updates go to: buffer, streamingText, currentAssistantId (cur),
\* finished; threw is set when a statement of the loop body throws; events
\* is the log of the events the dispatch chain acted on.
Event(type, text, messageId) == [type |-> type, text |-> text, messageId |-> messageId]

\* (mutant) finalText prefers the streamed text to the reply
FinalTextStreamedFirst(data, streamingText) ==
    IF streamingText /= <<>> THEN streamingText
    ELSE IF data.reply /= <<>> THEN data.reply
    ELSE NO_RESPONSE

\* finalText of the result branch
FinalText(data, streamingText) ==
    IF data.reply /= <<>> THEN data.reply
    ELSE IF streamingText /= <<>> THEN streamingText
    ELSE NO_RESPONSE

\* payload.error || 'Error reaching API.'
ErrorText(payload) == IF payload.error /= <<>> THEN payload.error ELSE FALLBACK_ERROR

\* (mutant) the result branch does not assign currentAssistantId
ApplyKeepsCur(st, payload, assistantId, latencyMs) ==
    IF payload.kind = "null" THEN [st EXCEPT !.threw = TRUE]
    ELSE IF payload.kind /= "obj" THEN st
    ELSE IF payload.type = "delta" /\ payload.deltaIsString THEN
        LET text == st.streamingText \o payload.delta IN
        [st EXCEPT !.streamingText = text,
                   !.msgs = DeltaUpdate(st.msgs, st.cur, text),
                   !.events = Append(st.events, Event("delta", payload.delta, ""))]
    ELSE IF payload.type = "result" THEN
        LET cur == IF payload.messageId /= "" THEN payload.messageId ELSE st.cur
            finalText == FinalText(payload, st.streamingText) IN
        [st EXCEPT !.cur = st.cur,
                   !.msgs = ResultUpdate(st.msgs, assistantId, cur, finalText, payload, latencyMs),
                   !.events = Append(st.events, Event("result", payload.reply, payload.messageId))]
    ELSE IF payload.type = "error" THEN
        [st EXCEPT !.msgs = TextUpdate(st.msgs, assistantId, ErrorText(payload)),
                   !.events = Append(st.events, Event("error", payload.error, ""))]
    ELSE IF payload.type = "end" THEN
        [st EXCEPT !.finished = TRUE,
                   !.events = Append(st.events, Event("end", <<>>, ""))]
    ELSE st

\* the if / else-if chain on payload.type
Apply(st, payload, assistantId, latencyMs) ==
    IF payload.kind = "null" THEN [st EXCEPT !.threw = TRUE]
    ELSE IF payload.kind /= "obj" THEN st
    ELSE IF payload.type = "delta" /\ payload.deltaIsString THEN
        LET text == st.streamingText \o payload.delta IN
        [st EXCEPT !.streamingText = text,
                   !.msgs = DeltaUpdate(st.msgs, st.cur, text),
                   !.events = Append(st.events, Event("delta", payload.delta, ""))]
    ELSE IF payload.type = "result" THEN
        LET cur == IF payload.messageId /= "" THEN payload.messageId ELSE st.cur
            finalText == FinalText(payload, st.streamingText) IN
        [st EXCEPT !.cur = cur,
                   !.msgs = ResultUpdate(st.msgs, assistantId, cur, finalText, payload, latencyMs),
                   !.events = Append(st.events, Event("result", payload.reply, payload.messageId))]
    ELSE IF payload.type = "error" THEN
        [st EXCEPT !.msgs = TextUpdate(st.msgs, assistantId, ErrorText(payload)),
                   !.events = Append(st.events, Event("error", payload.error, ""))]
    ELSE IF payload.type = "end" THEN
        [st EXCEPT !.finished = TRUE,
                   !.events = Append(st.events, Event("end", <<>>, ""))]
    ELSE st

\* (mutant) a frame without a data line ends the stream with an exception
DispatchNoDataFatal(st, rawEvent, assistantId, latencyMs) ==
    LET lines == SplitLines(rawEvent, <<>>)
        k == FindDataLine(lines) IN
    IF k = 0 THEN [st EXCEPT !.threw = TRUE]
    ELSE LET jsonPayload == Trim(SubSeq(lines[k], Len(DATA_PREFIX) + 1, Len(lines[k])))
             parsed == ParseJSON(jsonPayload) IN
         IF jsonPayload = <<>> THEN st
         ELSE IF ~parsed.ok THEN st
         ELSE Apply(st, parsed.val, assistantId, latencyMs)

\* (mutant) a payload that does not parse ends the stream with the exception
DispatchParseFatal(st, rawEvent, assistantId, latencyMs) ==
    LET lines == SplitLines(rawEvent, <<>>)
        k == FindDataLine(lines) IN
    IF k = 0 THEN st
    ELSE LET jsonPayload == Trim(SubSeq(lines[k], Len(DATA_PREFIX) + 1, Len(lines[k])))
             parsed == ParseJSON(jsonPayload) IN
         IF jsonPayload = <<>> THEN st
         ELSE IF ~parsed.ok THEN [st EXCEPT !.threw = TRUE]
         ELSE Apply(st, parsed.val, assistantId, latencyMs)

\* one frame: find the data line, trim and parse its payload, dispatch
Dispatch(st, rawEvent, assistantId, latencyMs) ==
    LET lines == SplitLines(rawEvent, <<>>)
        k == FindDataLine(lines) IN
    IF k = 0 THEN st
    ELSE LET jsonPayload == Trim(SubSeq(lines[k], Len(DATA_PREFIX) + 1, Len(lines[k])))
             parsed == ParseJSON(jsonPayload) IN
         IF jsonPayload = <<>> THEN st
         ELSE IF ~parsed.ok THEN st
         ELSE Apply(st, parsed.val, assistantId, latencyMs)

\* (mutant) the frames behind an End frame in the buffer are dispatched too
RECURSIVE DrainPastEnd(_, _, _)
DrainPastEnd(st, assistantId, latencyMs) ==
    LET boundary == IndexOfBoundary(st.buffer) IN
    IF boundary = 0 \/ st.threw THEN st
    ELSE LET rawEvent == SubSeq(st.buffer, 1, boundary - 1)
             rest == SubSeq(st.buffer, boundary + 2, Len(st.buffer))
         IN DrainPastEnd(Dispatch([st EXCEPT !.buffer = rest], rawEvent, assistantId, latencyMs),
                         assistantId, latencyMs)

\* while (boundary !== -1): cut the frames off the buffer, one by one
RECURSIVE Drain(_, _, _)
Drain(st, assistantId, latencyMs) ==
    LET boundary == IndexOfBoundary(st.buffer) IN
    IF boundary = 0 \/ st.finished \/ st.threw THEN st
    ELSE LET rawEvent == SubSeq(st.buffer, 1, boundary - 1)
             rest == SubSeq(st.buffer, boundary + 2, Len(st.buffer))
         IN Drain(Dispatch([st EXCEPT !.buffer = rest], rawEvent, assistantId, latencyMs),
                  assistantId, latencyMs)

\* (mutant) the buffer is overwritten by the chunk: no carry-over
FeedNoCarryOver(st, chunk, assistantId, latencyMs) ==
    LET dec == Decode(st.pending, chunk)
    IN Drain([st EXCEPT !.buffer = dec.text, !.pending = dec.pending],
             assistantId, latencyMs)

\* one iteration of while (!finished) that read a chunk
Feed(st, chunk, assistantId, latencyMs) ==
    LET dec == Decode(st.pending, chunk)
    IN Drain([st EXCEPT !.buffer = st.buffer \o dec.text, !.pending = dec.pending],
             assistantId, latencyMs)

\* ------------------------------------------------------- response bodies
\* what the server writes: UTF-8 bytes of frames "data:<json>\n\n"
RECURSIVE Encode(_)
Encode(text) ==
    IF text = <<>> THEN <<>>
    ELSE (IF Head(text) = "E9" THEN <<"xC3", "xA9">> ELSE <<Head(text)>>) \o Encode(Tail(text))

Frame(json) == DATA_PREFIX \o Encode(json) \o <<LF, LF>>

DeltaFrame(text) == Frame(<<"{d:">> \o text \o <<"}">>)
ResultFrame(head, reply) == Frame(<<head>> \o reply \o <<"}">>)
ErrorFrame(text) == Frame(<<"{e:">> \o text \o <<"}">>)
EndFrame == Frame(<<"{end}">>)
BadJsonFrame == Frame(<<"{d:", "a">>)
CommentFrame == <<":", "x", LF, LF>>

\* every sequence of 0..n elements of the set S
RECURSIVE SeqsUpTo(_, _)
SeqsUpTo(S, n) ==
    IF n = 0 THEN {<<>>}
    ELSE LET shorter == SeqsUpTo(S, n - 1)
         IN shorter \cup {Append(q, x) : q \in {r \in shorter : Len(r) = n - 1}, x \in S}

\* the end-to-end scenario of the specification
ScenarioBody ==
    DeltaFrame(<<"AAPL">>) \o DeltaFrame(<<" is $190">>)
        \o ResultFrame("{r.m1:", <<"AAPL is $190.12">>) \o EndFrame

SkipBody == DeltaFrame(<<"a">>) \o BadJsonFrame \o DeltaFrame(<<"b">>)

\* the bodies of the session-level specification
SessionBodies ==
    { DeltaFrame(<<"a">>) \o DeltaFrame(<<"b">>),
      ScenarioBody,
      ResultFrame("{r.m1+:", <<"R">>) \o DeltaFrame(<<"a">>),
      ResultFrame("{r.w:", <<"R">>) \o DeltaFrame(<<"a">>),
      ErrorFrame(<<"E">>) \o EndFrame }

\* the bodies of the wire-level specification: every sequence of at most
\* MaxFrames of these frames, and the two scenarios
WireFrames ==
    { DeltaFrame(<<"a">>), DeltaFrame(<<"E9">>), ResultFrame("{r.m1:", <<"R">>),
      ResultFrame("{r.m2:", <<"b">>), ResultFrame("{r:", <<>>), ErrorFrame(<<"E">>),
      EndFrame, BadJsonFrame }

\* the bodies of the feedback specification
FeedbackBodies ==
    { ResultFrame("{r.m1+:", <<"R">>) \o EndFrame, ErrorFrame(<<"E">>) }

\* a delta frame, then a complete data line that is followed by one newline
\* only: the body ends before the blank line
UnterminatedBody ==
    DeltaFrame(<<"a">>) \o DATA_PREFIX \o Encode(<<"{d:", "b", "}">>) \o <<LF>>

\* a data line whose payload is blank
EmptyDataFrame == DATA_PREFIX \o <<SP, LF, LF>>

\* terminated frames without a usable event: no data line, no payload, a
\* type that is none of the four, a delta that is not a string
SkippedFrames == {CommentFrame, EmptyDataFrame, Frame(<<"{ping}">>), Frame(<<"{d#}">>)}

\* payloads that parse but are not objects: the literal null, a number
NonObjectFrames == {Frame(<<"null">>), Frame(<<"1">>)}

\* the frame between two delta frames
Between(frame) == DeltaFrame(<<"a">>) \o frame \o DeltaFrame(<<"b">>)

WireBodies ==
    {Flatten(q) : q \in SeqsUpTo(WireFrames, MaxFrames)}
        \cup {ScenarioBody, SkipBody, UnterminatedBody}
        \cup {Between(f) : f \in SkippedFrames \cup NonObjectFrames}

\* what the user types into the input box
Inputs == {<<SP>>, <<SP, "AAPL price?", SP>>}

Ratings == {"up", "down"}

\* performance.now() - startedAt at a result event: a representative value
Latencies == {7}

\* ------------------------------------------------------------------- state
VARIABLES
    messages,         \* useState<Msg[]>
    input,            \* useState('') of the input box
    isLoading,        \* useState(false)
    feedbackLoading,  \* the keys of the feedbackLoading record
    calls,            \* the send() calls: locals and position of each
    nSends,           \* number of accepted send() calls (ids handed out)
    posts,            \* the feedback POSTs issued, in order, with their outcome
    last,             \* the handler the last step ran and what it did
    timer             \* the latency display: refs, intervals and pendingLatencyMs

vars == <<messages, input, isLoading, feedbackLoading, calls, nSends, posts, last, timer>>

\* last: op is "send" or "rate" for a call of send() or a click on a feedback
\* button, ok tells whether the call passed its guards (a request was
\* issued); a click also records the message index, the rating and the
\* feedback the message had.  Every other step leaves OtherStep.
OtherStep == [op |-> "step", ok |-> TRUE, mi |-> 0, rating |-> "none", before |-> "none"]
SendStep(ok) == [OtherStep EXCEPT !.op = "send", !.ok = ok]
RateStep(ok, i, rating, before) ==
    [op |-> "rate", ok |-> ok, mi |-> i, rating |-> rating, before |-> before]

CallIds == 1..MaxSends

\* A send() call: pc is its position ("unused", "fetch" awaiting fetch,
\* "read" awaiting reader.read(), "done" returned), then its locals, the
\* response body with the number of bytes already read, the log of the
\* events it dispatched, how the chunks were cut so far, and how it ended.
NoCall ==
    [pc |-> "unused", assistantId |-> "", prompt |-> <<>>, buffer |-> <<>>,
     pending |-> <<>>, streamingText |-> <<>>, cur |-> "", body |-> <<>>, sent |-> 0,
     events |-> <<>>, cuts |-> "none", exit |-> ""]

\* a call that returned: its locals are gone
Returned(call, exit) ==
    [NoCall EXCEPT !.pc = "done", !.assistantId = call.assistantId, !.prompt = call.prompt,
                   !.body = call.body, !.events = call.events, !.cuts = call.cuts,
                   !.exit = exit]

Forgotten == [NoCall EXCEPT !.pc = "done"]

\* The state behind the latency display.  ref is pendingTimerRef.current (0
\* is null, else an interval id), started tells whether pendingStartRef
\* holds a start time, intervals is the set of the ids of the intervals
\* that window.setInterval created and that were not cleared, made the
\* number of intervals created so far, latency is pendingLatencyMs, and
\* seen is the value of isLoading at the last run of the effect (the state
\* after mount: the effect has run once with isLoading false).
TimerInit ==
    [ref |-> 0, started |-> FALSE, intervals |-> {}, made |-> 0, latency |-> 0,
     seen |-> FALSE]

Init ==
    /\ messages = <<INITIAL_ASSISTANT>>
    /\ input = <<>>
    /\ isLoading = FALSE
    /\ feedbackLoading = {}
    /\ calls = [c \in CallIds |-> NoCall]
    /\ nSends = 0
    /\ posts = <<>>
    /\ last = OtherStep
    /\ timer = TimerInit

\* ------------------------------------------------------------------ send()
\* onChange of the input box (the box is disabled while loading)
TypeInput(text) ==
    /\ ~isLoading
    /\ input' = text
    /\ last' = OtherStep
    /\ UNCHANGED <<messages, isLoading, feedbackLoading, calls, nSends, posts, timer>>

\* (mutant) send() does not look at isLoading
SendRejectedEmptyOnly(text) == text = <<>>

\* if (!text || isLoading) return
SendRejected(text) == text = <<>> \/ isLoading

\* send(messageOverride) up to the await of fetch
SendCall(raw) ==
    LET text == Trim(raw) IN
    IF SendRejected(text)
    THEN /\ last' = SendStep(FALSE)
         /\ UNCHANGED <<messages, input, isLoading, feedbackLoading, calls, nSends, posts, timer>>
    ELSE /\ nSends < MaxSends
         /\ LET n == nSends + 1
                assistantId == createMessageId(n) IN
            /\ nSends' = n
            /\ input' = <<>>
            /\ isLoading' = TRUE
            /\ messages' = messages \o <<UserMsg(text), Placeholder(assistantId, text)>>
            /\ calls' = [c \in CallIds |->
                            IF c = n
                            THEN [NoCall EXCEPT !.pc = "fetch", !.assistantId = assistantId,
                                                !.cur = assistantId, !.prompt = text]
                            ELSE IF calls[c].pc = "done" THEN Forgotten
                            ELSE calls[c]]
         /\ last' = SendStep(TRUE)
         /\ UNCHANGED <<feedbackLoading, posts, timer>>

\* Enter in the input box or the Send button (both disabled while loading)
Send ==
    /\ ~isLoading
    /\ SendCall(input)

\* a follow-up chip of an assistant message: send(tip)
SendFollowup(i, k) ==
    /\ i \in 1..Len(messages)
    /\ isAssistant(messages[i])
    /\ k \in 1..Len(messages[i].followups)
    /\ k <= 4
    /\ SendCall(messages[i].followups[k])

\* (mutant) the catch block without the finally: isLoading stays set
CatchKeepsLoading(c, exit) ==
    /\ messages' = TextUpdate(messages, calls[c].assistantId, FALLBACK_ERROR)
    /\ isLoading' = isLoading
    /\ calls' = [calls EXCEPT ![c] = Returned(calls[c], exit)]

\* the catch block, then finally
Catch(c, exit) ==
    /\ messages' = TextUpdate(messages, calls[c].assistantId, FALLBACK_ERROR)
    /\ isLoading' = FALSE
    /\ calls' = [calls EXCEPT ![c] = Returned(calls[c], exit)]

\* fetch resolves with response.ok and a body
FetchOk(c, body) ==
    /\ calls[c].pc = "fetch"
    /\ calls' = [calls EXCEPT ![c].pc = "read", ![c].body = body]
    /\ last' = OtherStep
    /\ UNCHANGED <<messages, input, isLoading, feedbackLoading, nSends, posts, timer>>

\* fetch rejects, or the response is not ok or has no body
FetchFail(c) ==
    /\ calls[c].pc = "fetch"
    /\ Catch(c, "fetchFail")
    /\ last' = OtherStep
    /\ UNCHANGED <<input, feedbackLoading, nSends, posts, timer>>

\* how the transport has cut the body so far, after a chunk of n bytes
CutsAfter(call, n) ==
    IF call.sent = 0 /\ n = Len(call.body) THEN "whole"
    ELSE IF n = 1 /\ call.cuts \in {"none", "bytes"} THEN "bytes"
    ELSE "mixed"

\* reader.read() resolves with the next n bytes of the body
ReadChunk(c, n, latencyMs) ==
    LET call == calls[c] IN
    /\ call.pc = "read"
    /\ n \in 1..(Len(call.body) - call.sent)
    /\ LET chunk == SubSeq(call.body, call.sent + 1, call.sent + n)
           st0 == [buffer |-> call.buffer, pending |-> call.pending,
                   streamingText |-> call.streamingText, cur |-> call.cur,
                   finished |-> FALSE, threw |-> FALSE, events |-> call.events,
                   msgs |-> messages]
           st == Feed(st0, chunk, call.assistantId, latencyMs)
           after == [call EXCEPT !.buffer = st.buffer, !.pending = st.pending,
                                 !.streamingText = st.streamingText, !.cur = st.cur,
                                 !.events = st.events, !.sent = call.sent + n,
                                 !.cuts = CutsAfter(call, n)]
       IN IF st.threw
          THEN /\ messages' = TextUpdate(st.msgs, call.assistantId, FALLBACK_ERROR)
               /\ isLoading' = FALSE
               /\ calls' = [calls EXCEPT ![c] = Returned(after, "threw")]
          ELSE IF st.finished
          THEN /\ messages' = st.msgs
               /\ isLoading' = FALSE
               /\ calls' = [calls EXCEPT ![c] = Returned(after, "end")]
          ELSE /\ messages' = st.msgs
               /\ isLoading' = isLoading
               /\ calls' = [calls EXCEPT ![c] = after]
    /\ last' = OtherStep
    /\ UNCHANGED <<input, feedbackLoading, nSends, posts, timer>>

\* (mutant) at end of input the remainder of the buffer is dispatched as a
\* last frame
ReadEofFlushes(c) ==
    LET call == calls[c]
        st0 == [buffer |-> <<>>, pending |-> <<>>, streamingText |-> call.streamingText,
                cur |-> call.cur, finished |-> FALSE, threw |-> FALSE,
                events |-> call.events, msgs |-> messages]
        st == Dispatch(st0, call.buffer, call.assistantId, CHOOSE l \in Latencies : TRUE)
    IN /\ call.pc = "read"
       /\ call.sent = Len(call.body)
       /\ messages' = st.msgs
       /\ isLoading' = FALSE
       /\ calls' = [calls EXCEPT ![c] = Returned([call EXCEPT !.events = st.events], "eof")]
       /\ last' = OtherStep
       /\ UNCHANGED <<input, feedbackLoading, nSends, posts, timer>>

\* reader.read() resolves with done: break, then finally
ReadEof(c) ==
    /\ calls[c].pc = "read"
    /\ calls[c].sent = Len(calls[c].body)
    /\ isLoading' = FALSE
    /\ calls' = [calls EXCEPT ![c] = Returned(calls[c], "eof")]
    /\ last' = OtherStep
    /\ UNCHANGED <<messages, input, feedbackLoading, nSends, posts, timer>>

\* reader.read() rejects
ReadFail(c) ==
    /\ calls[c].pc = "read"
    /\ Catch(c, "readFail")
    /\ last' = OtherStep
    /\ UNCHANGED <<input, feedbackLoading, nSends, posts, timer>>

\* ------------------------------------------------------ submitFeedback()
\* (mutant) the controls are rendered while a request is loading
ControlsHiddenIgnoresLoading(msg) == msg.id = "" \/ msg.text = <<>>

\* renderFeedbackControls returns null: no buttons for this message
ControlsHidden(msg) == msg.id = "" \/ msg.text = <<>> \/ isLoading

\* the disabled attribute of the button of this rating
ButtonDisabled(msg, rating) == msg.id \in feedbackLoading \/ msg.feedback = rating

\* the two early returns of submitFeedback
FeedbackReturnsEarly(msg, rating) == msg.id = "" \/ msg.feedback = rating

\* (mutant) a rating equal to the recorded one is submitted again
ClickIgnoredBusyOnly(msg, rating) == msg.id \in feedbackLoading \/ msg.id = ""

\* a click that issues no POST: the button is disabled, or submitFeedback
\* returns before the request
ClickIgnored(msg, rating) == ButtonDisabled(msg, rating) \/ FeedbackReturnsEarly(msg, rating)

PostEntry(i, msg, rating) ==
    [mi |-> i, id |-> msg.id, rating |-> rating, status |-> "pending", stale |-> FALSE]

\* a click on the thumb button of message i: submitFeedback up to the await
Rate(i, rating) ==
    /\ i \in 1..Len(messages)
    /\ isAssistant(messages[i])
    /\ messages[i].id /= WELCOME
    /\ ~ControlsHidden(messages[i])
    /\ LET msg == messages[i] IN
       IF ClickIgnored(msg, rating)
       THEN /\ last' = RateStep(FALSE, i, rating, msg.feedback)
            /\ UNCHANGED <<posts, feedbackLoading>>
       ELSE /\ last' = RateStep(TRUE, i, rating, msg.feedback)
            /\ posts' = Append(posts, PostEntry(i, msg, rating))
            /\ feedbackLoading' = feedbackLoading \cup {msg.id}
    /\ UNCHANGED <<messages, input, isLoading, calls, nSends, timer>>

\* axios.post resolves: setMessages, then finally
PostOk(k) ==
    /\ k \in 1..Len(posts)
    /\ posts[k].status = "pending"
    /\ messages' = FeedbackUpdate(messages, posts[k].id, posts[k].rating)
    /\ feedbackLoading' = feedbackLoading \ {posts[k].id}
    /\ posts' = [posts EXCEPT ![k].status = "ok"]
    /\ last' = OtherStep
    /\ UNCHANGED <<input, isLoading, calls, nSends, timer>>

\* (mutant) the rating is applied whether or not the POST succeeded
PostFailApplies(k) ==
    /\ k \in 1..Len(posts)
    /\ posts[k].status = "pending"
    /\ messages' = FeedbackUpdate(messages, posts[k].id, posts[k].rating)
    /\ feedbackLoading' = feedbackLoading \ {posts[k].id}
    /\ posts' = [posts EXCEPT ![k].status = "failed"]
    /\ last' = OtherStep
    /\ UNCHANGED <<input, isLoading, calls, nSends, timer>>

\* axios.post rejects: catch logs, then finally
PostFail(k) ==
    /\ k \in 1..Len(posts)
    /\ posts[k].status = "pending"
    /\ feedbackLoading' = feedbackLoading \ {posts[k].id}
    /\ posts' = [posts EXCEPT ![k].status = "failed"]
    /\ last' = OtherStep
    /\ UNCHANGED <<messages, input, isLoading, calls, nSends, timer>>

\* --------------------------------------------------- clearConversation()
\* the Clear button, rendered when messages.length > 1
Clear ==
    /\ Len(messages) > 1
    /\ messages' = <<INITIAL_ASSISTANT>>
    /\ feedbackLoading' = {}
    /\ posts' = [k \in 1..Len(posts) |-> [posts[k] EXCEPT !.stale = TRUE]]
    /\ last' = OtherStep
    /\ UNCHANGED <<input, isLoading, calls, nSends, timer>>

\* ------------------------------------------- useEffect(..., [isLoading])
\* now() - pendingStartRef.current at a tick of the 120 ms interval
Elapsed == {120, 240}

\* the cleanup function that either branch of the effect returns
Cleanup(t) == [t EXCEPT !.intervals = t.intervals \ {t.ref}]

\* (mutant) the loading branch does not keep the id of its interval
EffectBodyLosesId(t, loading) ==
    IF loading
    THEN LET id == t.made + 1 IN
         [t EXCEPT !.started = TRUE, !.intervals = (t.intervals \ {t.ref}) \cup {id},
                   !.made = id]
    ELSE [t EXCEPT !.intervals = t.intervals \ {t.ref}, !.ref = 0, !.started = FALSE,
                   !.latency = 0]

\* the body of the effect: with isLoading set it notes the start time,
\* clears the interval the ref holds and starts a new one; otherwise it
\* clears the interval, empties both refs and resets pendingLatencyMs
EffectBody(t, loading) ==
    IF loading
    THEN LET id == t.made + 1 IN
         [t EXCEPT !.started = TRUE, !.intervals = (t.intervals \ {t.ref}) \cup {id},
                   !.ref = id, !.made = id]
    ELSE [t EXCEPT !.intervals = t.intervals \ {t.ref}, !.ref = 0, !.started = FALSE,
                   !.latency = 0]

\* a render committed another isLoading: the cleanup of the previous run,
\* then the effect
Effect ==
    /\ timer.seen /= isLoading
    /\ timer' = [EffectBody(Cleanup(timer), isLoading) EXCEPT !.seen = isLoading]
    /\ last' = OtherStep
    /\ UNCHANGED <<messages, input, isLoading, feedbackLoading, calls, nSends, posts>>

\* the callback of an interval that was not cleared
Tick(id, elapsed) ==
    /\ id \in timer.intervals
    /\ timer' = IF timer.started THEN [timer EXCEPT !.latency = elapsed] ELSE timer
    /\ last' = OtherStep
    /\ UNCHANGED <<messages, input, isLoading, feedbackLoading, calls, nSends, posts>>

\* the effects of the last commit have run (they are flushed before the
\* next update is rendered)
EffectsFlushed == timer.seen = isLoading

\* ---------------------------------------------------------- specifications
\* chunk sizes that end where a frame ends, or at the end of the body
FrameCuts(call) ==
    {n \in 1..(Len(call.body) - call.sent) :
        LET p == call.sent + n IN
        \/ p = Len(call.body)
        \/ (p >= 2 /\ call.body[p - 1] = LF /\ call.body[p] = LF)}

\* The session: sends, follow-up chips, clear and one rating in any order,
\* with the session bodies delivered in chunks of whole frames.  (Repeated
\* ratings are explored by SpecFeedback.)
Next ==
    \/ \E text \in Inputs : TypeInput(text)
    \/ Send
    \/ \E i \in 1..Len(messages), k \in 1..4 : SendFollowup(i, k)
    \/ \E c \in CallIds, body \in SessionBodies : FetchOk(c, body)
    \/ \E c \in CallIds : FetchFail(c)
    \/ \E c \in CallIds : \E n \in FrameCuts(calls[c]), l \in Latencies : ReadChunk(c, n, l)
    \/ \E c \in CallIds : ReadEof(c)
    \/ \E c \in CallIds : ReadFail(c)
    \/ \E i \in 1..Len(messages), r \in Ratings : posts = <<>> /\ Rate(i, r)
    \/ \E k \in 1..Len(posts) : PostOk(k)
    \/ \E k \in 1..Len(posts) : PostFail(k)
    \/ Clear

Spec == Init /\ [][Next]_vars

\* The wire: one send whose body is any of the wire bodies, cut into chunks
\* at any byte.
NextWire ==
    \/ \E text \in Inputs : TypeInput(text)
    \/ (nSends = 0 /\ Send)
    \/ \E body \in WireBodies : FetchOk(1, body)
    \/ FetchFail(1)
    \/ \E n \in 1..Len(calls[1].body), l \in Latencies : ReadChunk(1, n, l)
    \/ ReadEof(1)
    \/ ReadFail(1)

SpecWire == Init /\ [][NextWire]_vars

\* Feedback: ratings of the answers of a few sends, with clear.
NextFeedback ==
    \/ \E text \in Inputs : TypeInput(text)
    \/ (nSends < MaxRatedSends /\ Send)
    \/ \E c \in CallIds, body \in FeedbackBodies : FetchOk(c, body)
    \/ \E c \in CallIds : FetchFail(c)
    \/ \E c \in CallIds : \E n \in FrameCuts(calls[c]), l \in Latencies : ReadChunk(c, n, l)
    \/ \E c \in CallIds : ReadEof(c)
    \/ \E i \in 1..Len(messages), r \in Ratings : Len(posts) < MaxRates /\ Rate(i, r)
    \/ \E k \in 1..Len(posts) : PostOk(k)
    \/ \E k \in 1..Len(posts) : PostFail(k)
    \/ Clear

SpecFeedback == Init /\ [][NextFeedback]_vars

\* The latency display: sends with their streams and failures, clear, the
\* effect on isLoading and the ticks of its interval.  (The other
\* specifications leave the effect out.)
NextTimer ==
    \/ (EffectsFlushed /\ \E text \in Inputs : TypeInput(text))
    \/ (EffectsFlushed /\ Send)
    \/ (EffectsFlushed /\ \E c \in CallIds, body \in FeedbackBodies : FetchOk(c, body))
    \/ (EffectsFlushed /\ \E c \in CallIds : FetchFail(c))
    \/ (EffectsFlushed /\ \E c \in CallIds : \E n \in FrameCuts(calls[c]), l \in Latencies :
                              ReadChunk(c, n, l))
    \/ (EffectsFlushed /\ \E c \in CallIds : ReadEof(c))
    \/ (EffectsFlushed /\ \E c \in CallIds : ReadFail(c))
    \/ (EffectsFlushed /\ Clear)
    \/ Effect
    \/ \E id \in timer.intervals, e \in Elapsed : Tick(id, e)

SpecTimer == Init /\ [][NextTimer]_vars

\* =================================================================== claims
\* helpers of the formulas
DeltaTexts(events) ==
    [i \in 1..Len(events) |-> IF events[i].type = "delta" THEN events[i].text ELSE <<>>]

OnlyDeltas(events) ==
    \A i \in 1..Len(events) :
        \/ events[i].type = "delta"
        \/ (events[i].type = "end" /\ i = Len(events))

\* the stream of a call is being read, or ended by End or by EOF
ReadingOrEnded(call) ==
    call.pc = "read" \/ (call.pc = "done" /\ call.exit \in {"end", "eof"})

\* under SpecWire the only send appends messages 2 and 3
WireAnswer == messages[3]

\* ------------------------------------------------------------------- C1
\* C1 (Reassembly): as long as the events decoded from the stream of a send
\* are only Deltas (with a closing End at most), the assistant message of
\* that send has as text the concatenation of the delta texts applied so
\* far, and so at End or EOF the concatenation of all of them.
C1_Reassembly ==
    LET call == calls[1] IN
    (ReadingOrEnded(call) /\ OnlyDeltas(call.events))
        => /\ Len(messages) = 3
           /\ WireAnswer.id = call.assistantId
           /\ WireAnswer.text = Flatten(DeltaTexts(call.events))

C1_Witness ==
    LET call == calls[1] IN
    /\ call.pc = "done" /\ call.exit = "eof"
    /\ Len(call.events) = 2
    /\ OnlyDeltas(call.events)
    /\ WireAnswer.text = <<"a", "E9">>

\* ------------------------------------------------------------------- C2
\* C2 (Result precedence): when a Result with a non-empty reply R is applied
\* after Deltas that accumulated to S, the text of the assistant message is
\* R, not S (also after the End that follows).
ResultAfterDeltas(events, k) ==
    /\ k \in 1..Len(events)
    /\ events[k].type = "result"
    /\ events[k].text /= <<>>
    /\ \A i \in 1..(k - 1) : events[i].type = "delta"
    /\ \A i \in (k + 1)..Len(events) : events[i].type = "end"

C2_ResultPrecedence ==
    LET call == calls[1] IN
    \A k \in 1..Len(call.events) :
        (ReadingOrEnded(call) /\ ResultAfterDeltas(call.events, k))
            => WireAnswer.text = call.events[k].text

C2_Witness ==
    LET call == calls[1] IN
    /\ call.pc = "read"
    /\ Len(call.events) = 2
    /\ call.events[1] = Event("delta", <<"a">>, "")
    /\ ResultAfterDeltas(call.events, 2)
    /\ WireAnswer.text = <<"R">>

\* ------------------------------------------------------------------- C3
\* C3 (Frame splitting invariance): however the transport cuts the body
\* into chunks, one byte per chunk included, the events dispatched and the
\* conversation left are those of the body delivered as one single chunk.
SingleChunkRun(call) ==
    LET st0 == [buffer |-> <<>>, pending |-> <<>>, streamingText |-> <<>>,
                cur |-> call.assistantId, finished |-> FALSE, threw |-> FALSE,
                events |-> <<>>,
                msgs |-> <<INITIAL_ASSISTANT, UserMsg(call.prompt),
                           Placeholder(call.assistantId, call.prompt)>>]
        st == Feed(st0, call.body, call.assistantId, CHOOSE l \in Latencies : TRUE)
    IN [events |-> st.events,
        msgs |-> IF st.threw THEN TextUpdate(st.msgs, call.assistantId, FALLBACK_ERROR)
                 ELSE st.msgs]

Consumed(call) ==
    \/ (call.pc = "read" /\ call.sent = Len(call.body))
    \/ (call.pc = "done" /\ call.exit \in {"end", "eof", "threw"})

C7_SkipAndContinue ==
    LET call == calls[1] IN
    call.body = SkipBody =>
        /\ call.exit \notin {"threw", "end"}
        /\ (call.pc = "read" /\ call.sent = Len(SkipBody)) =>
              /\ WireAnswer.text = <<"a", "b">>
              /\ call.events = <<Event("delta", <<"a">>, ""), Event("delta", <<"b">>, "")>>

C7_Witness ==
    LET call == calls[1] IN
    /\ call.body = SkipBody
    /\ call.pc = "read"
    /\ call.sent = Len(SkipBody)
    /\ call.cuts = "mixed"
    /\ WireAnswer.text = <<"a", "b">>

\* ------------------------------------------------------------------- C9
\* C9 as stated (end-to-end scenario): after send("AAPL price?") and the
\* frames delta "AAPL", delta " is $190", result {m1, "AAPL is $190.12"},
\* end, the conversation has one UserMessage("AAPL price?") and one
\* AssistantMessage, with id "m1" and text "AAPL is $190.12".
ScenarioDone ==
    /\ calls[1].pc = "done"
    /\ calls[1].exit = "end"
    /\ calls[1].body = ScenarioBody
    /\ calls[1].prompt = <<"AAPL price?">>

AssistantIndexes == {i \in 1..Len(messages) : isAssistant(messages[i])}
UserIndexes == {i \in 1..Len(messages) : ~isAssistant(messages[i])}

C9_Original ==
    ScenarioDone =>
        /\ Cardinality(UserIndexes) = 1
        /\ \A i \in UserIndexes : messages[i].text = <<"AAPL price?">>
        /\ Cardinality(AssistantIndexes) = 1
        /\ \A i \in AssistantIndexes :
              messages[i].id = "m1" /\ messages[i].text = <<"AAPL is $190.12">>

\* C9 as amended: the final conversation is the seeded greeting, then one
\* UserMessage("AAPL price?"), then one AssistantMessage with id "m1" and
\* text "AAPL is $190.12".
C9_Scenario ==
    ScenarioDone =>
        /\ Len(messages) = 3
        /\ messages[1] = INITIAL_ASSISTANT
        /\ messages[2] = UserMsg(<<"AAPL price?">>)
        /\ isAssistant(messages[3])
        /\ messages[3].id = "m1"
        /\ messages[3].text = <<"AAPL is $190.12">>

C9_Witness ==
    /\ ScenarioDone
    /\ calls[1].cuts = "mixed"
    /\ Len(calls[1].events) = 4
    /\ messages[3].id = "m1"

\* ------------------------------------------------------------------- C4
\* C4 (Cancellation isolation): the generation of a stream is the number of
\* its send among the accepted sends, the current generation is the number
\* of accepted sends.  A call moves on (its fetch resolves or fails, a
\* chunk, EOF or a read failure is handled: the only steps by which its
\* frames reach the conversation) only if its generation is the current
\* one; an older stream changes nothing.
ActiveCalls == {c \in CallIds : calls[c].pc \in {"fetch", "read"}}

OpenMessages ==
    {i \in 1..Len(messages) :
        /\ isAssistant(messages[i])
        /\ \E c \in ActiveCalls : messages[i].id \in {calls[c].assistantId, calls[c].cur}}

C5_OneOpenOneStream ==
    /\ Cardinality(ActiveCalls) <= 1
    /\ Cardinality(OpenMessages) <= 1

RolesPrefix(before, after) ==
    /\ Len(before) <= Len(after)
    /\ \A i \in 1..Len(before) : after[i].role = before[i].role

C10_NoDropNoReorder ==
    [][Clear \/ RolesPrefix(messages, messages')]_vars

C10_Witness ==
    /\ Len(messages) = 5
    /\ Len(posts) = 1
    /\ posts[1].status = "ok"
    /\ ~posts[1].stale
    /\ \E c \in CallIds : calls[c].exit = "readFail"
    /\ messages[3].feedback = "up"

\* ------------------------------------------------------------------- C8
\* the POSTs issued for the message now at index i, for the rating "up"
UpPosts(i) ==
    {k \in 1..Len(posts) : ~posts[k].stale /\ posts[k].mi = i /\ posts[k].rating = "up"}

\* no other rating than "up" was ever submitted for the id of message i
OnlyUpsFor(i) ==
    \A k \in 1..Len(posts) : posts[k].id = messages[i].id => posts[k].rating = "up"

\* the "up" POSTs on message i issued before the click of the last step
EarlierUpPosts(i) == IF last.ok THEN UpPosts(i) \ {Len(posts)} ELSE UpPosts(i)

Settled(i) == \A k \in 1..Len(posts) : posts[k].id = messages[i].id => posts[k].status /= "pending"

\* C8 as stated (Idempotent feedback): when rate(id, "up") is called a
\* second time on a completed assistant message, exactly one feedback POST
\* has been issued for it, and once the calls have ended its feedback is
\* "up".
C8_Original ==
    \A i \in 1..Len(messages) :
        (/\ last.op = "rate" /\ last.mi = i /\ last.rating = "up"
         /\ OnlyUpsFor(i)
         /\ EarlierUpPosts(i) /= {})
            => /\ Cardinality(UpPosts(i)) = 1
               /\ Settled(i) => messages[i].feedback = "up"

\* C8 as amended: rate(id, "up") called on a message whose feedback is
\* already "up" issues no POST and leaves the feedback "up"; the feedback
\* becomes "up" when an "up" POST succeeds and not before, so that a message
\* whose POSTs all failed has no feedback (and a repeated call posts again).
C8_IdempotentFeedback ==
    /\ (last.op = "rate" /\ last.before = last.rating)
          => (~last.ok /\ messages[last.mi].feedback = last.rating)
    /\ \A i \in 1..Len(messages) :
          OnlyUpsFor(i) =>
              /\ (\E k \in UpPosts(i) : posts[k].status = "ok") => messages[i].feedback = "up"
              /\ (\A k \in 1..Len(posts) : posts[k].id = messages[i].id => posts[k].status = "failed")
                    => messages[i].feedback = "none"

C8_Witness ==
    /\ last.op = "rate" /\ last.rating = "up" /\ last.before = "up" /\ ~last.ok
    /\ Len(posts) = 1
    /\ posts[1].status = "ok" /\ ~posts[1].stale
    /\ messages[last.mi].feedback = "up"

\* ------------------------------------------------------------------ C11
\* a step of the stream that dispatched exactly one event, of this type,
\* and left the stream being read
AppliedOne(c, type) ==
    /\ calls[c].pc = "read"
    /\ calls'[c].pc = "read"
    /\ Len(calls'[c].events) = Len(calls[c].events) + 1
    /\ SubSeq(calls'[c].events, 1, Len(calls[c].events)) = calls[c].events
    /\ calls'[c].events[Len(calls'[c].events)].type = type

HadResult(call) == \E k \in 1..Len(call.events) : call.events[k].type = "result"

\* C11 (closing is idempotent): once a Result has been applied, a second
\* Result applied on the same stream leaves the conversation unchanged,
\* whether or not the first Result carried a messageId.
C11_ClosingIdempotent ==
    [][(HadResult(calls[1]) /\ AppliedOne(1, "result")) => messages' = messages]_vars

\* ------------------------------------------------------------------ C12
\* the Results of the log that carried a messageId
IdResults(events) ==
    {k \in 1..Len(events) : events[k].type = "result" /\ events[k].messageId /= ""}

Lowest(S) == CHOOSE k \in S : \A j \in S : k <= j
Highest(S) == CHOOSE k \in S : \A j \in S : k >= j

\* the id of the answer and the current id of the stream, from the events
\* applied: the answer is rekeyed by the first Result that carries a
\* messageId (and keeps the placeholder id when none did); the current id
\* is the messageId of the latest Result that carried one
RekeyedIds ==
    LET call == calls[1]
        ids == IdResults(call.events) IN
    (call.pc \in {"read", "done"} /\ call.exit /= "fetchFail") =>
        /\ Len(messages) = 3
        /\ IF ids = {}
           THEN WireAnswer.id = call.assistantId
           ELSE /\ WireAnswer.id = call.events[Lowest(ids)].messageId
                /\ \A i \in 1..Len(messages) : messages[i].id /= call.assistantId
        /\ call.pc = "read" =>
              call.cur = (IF ids = {} THEN call.assistantId
                          ELSE call.events[Highest(ids)].messageId)

\* a Delta applied after the rekey goes to the message with the current id
DeltaAfterRekey ==
    LET call == calls[1]
        ids == IdResults(call.events)
        n == Len(call.events) IN
    (/\ call.pc = "read" /\ ids /= {} /\ n > 0
     /\ call.events[n].type = "delta"
     /\ WireAnswer.id = call.cur)
        => WireAnswer.text = Flatten(DeltaTexts(call.events))

ErrorInPlaceOfResult(events, k) ==
    /\ k \in 1..Len(events)
    /\ events[k].type = "error"
    /\ events[k].text /= <<>>
    /\ \A i \in 1..(k - 1) : events[i].type = "delta"

PayloadFieldsEmpty(msg) ==
    /\ msg.table = "" /\ msg.chart = "" /\ msg.sql = ""
    /\ msg.latencyMs = NoLatency /\ msg.followups = <<>>

\* C13 (server error event): once an Error with message E has arrived in
\* place of a Result, the text of the open assistant message is E, its
\* table, chart, sql, latencyMs and followups are empty, and the later
\* events of the stream change nothing of it.
C13_ErrorCloses ==
    LET call == calls[1] IN
    \A k \in 1..Len(call.events) :
        (ReadingOrEnded(call) /\ ErrorInPlaceOfResult(call.events, k))
            => /\ WireAnswer.text = call.events[k].text
               /\ WireAnswer.id = call.assistantId
               /\ PayloadFieldsEmpty(WireAnswer)

\* ------------------------------------------------------------------ C14
\* the latest send ended by a failure of the request, and the conversation
\* was not cleared since that send
RequestFailed(c) ==
    /\ c = nSends
    /\ calls[c].pc = "done"
    /\ calls[c].exit = "fetchFail"
    /\ Len(messages) > 1

Terminated == nSends > 0 /\ calls[nSends].pc = "done"

\* send() is called with this text and is accepted: it appends the user
\* message and the placeholder and the session is loading again
AcceptedWith(raw) ==
    LET n == Len(messages) IN
    /\ last'.op = "send" /\ last'.ok
    /\ nSends' = nSends + 1
    /\ Len(messages') = n + 2
    /\ SubSeq(messages', 1, n) = messages
    /\ messages'[n + 1] = UserMsg(Trim(raw))
    /\ isAssistant(messages'[n + 2])
    /\ messages'[n + 2].text = <<>>
    /\ isLoading'

\* C15 (recoverability): when the stream of an accepted send has
\* terminated, by End, EOF, a failure of the request or an exception while
\* reading, the session is idle again (the reset is part of the step that
\* ends the stream), and a send with non-empty text issued when the session
\* is idle is accepted and appends its user message and its placeholder,
\* whatever happened to the earlier sends and feedback submissions.
C15_Recoverability ==
    [][/\ Terminated' => ~isLoading'
       /\ (~isLoading /\ Trim(input) /= <<>> /\ Send) => AcceptedWith(input)
       /\ \A i \in 1..Len(messages), k \in 1..4 :
             (~isLoading /\ SendFollowup(i, k)) => AcceptedWith(messages[i].followups[k])]_vars

C15_Witness ==
    /\ last.op = "send" /\ last.ok
    /\ nSends = 2
    /\ Len(messages) = 5
    /\ messages[3].text = FALLBACK_ERROR
    /\ Len(posts) = 1 /\ posts[1].status = "failed"
    /\ isLoading

\* ------------------------------------------------------------------ C16
\* C16: clear() takes effect only when the session is idle: no step resets
\* the conversation while a request or a stream of the session is in
\* flight.
C16_ClearOnlyFromIdle ==
    [][Clear => (~isLoading /\ ActiveCalls = {})]_vars

\* ------------------------------------------------------------------ C17
\* C17: once clear() has run, the conversation is exactly the seeded
\* greeting, and every later step keeps it so until the next accepted send,
\* whatever a stream that was in flight at the time of the clear delivers.
C17_ClearedStaysCleared ==
    [][/\ Clear => messages' = <<INITIAL_ASSISTANT>>
       /\ (messages = <<INITIAL_ASSISTANT>> /\ ~(last'.op = "send" /\ last'.ok))
             => messages' = <<INITIAL_ASSISTANT>>]_vars

\* ------------------------------------------------------------------ C18
\* the step completes POST k, not made stale by a clear, with this outcome
Completes(k, status) ==
    /\ k \in 1..Len(posts)
    /\ ~posts[k].stale
    /\ posts[k].status = "pending"
    /\ posts'[k].status = status

\* C18 as stated (optimistic feedback): when the feedback POST of
\* rate(message, r) fails, the selected rating of the message is r
\* afterwards.
C18_Original ==
    [][\A k \in 1..Len(posts) :
          Completes(k, "failed") => messages'[posts[k].mi].feedback = posts[k].rating]_vars

\* C18 as amended: when the feedback POST of rate(message, r) fails, the
\* failure is only reported: the conversation is left as it was (the rating
\* r is not applied, the feedback the message had is kept) and the buttons
\* of the message are no longer busy; the rating is applied when the POST
\* succeeds.
C18_FeedbackOnSuccessOnly ==
    [][\A k \in 1..Len(posts) :
          /\ Completes(k, "failed") =>
                /\ messages' = messages
                /\ posts[k].id \notin feedbackLoading'
          /\ Completes(k, "ok") =>
                /\ messages'[posts[k].mi].feedback = posts[k].rating
                /\ posts[k].id \notin feedbackLoading']_vars

C18_Witness ==
    /\ Len(posts) = 2
    /\ posts[1].status = "ok" /\ posts[1].rating = "up" /\ ~posts[1].stale
    /\ posts[2].status = "failed" /\ posts[2].rating = "down" /\ ~posts[2].stale
    /\ posts[2].mi = posts[1].mi
    /\ messages[posts[2].mi].feedback = "up"
    /\ feedbackLoading = {}

\* ------------------------------------------------------------------ C19
\* the step appended exactly the user message with this text and a new
\* placeholder for it, and left every earlier message as it was
AppendsTurn(text) ==
    LET n == Len(messages) IN
    /\ Len(messages') = n + 2
    /\ SubSeq(messages', 1, n) = messages
    /\ messages'[n + 1] = UserMsg(text)
    /\ messages'[n + 2] = Placeholder(messages'[n + 2].id, text)
    /\ messages'[n + 2].id /= ""
    /\ \A i \in 1..n : messages[i].id /= messages'[n + 2].id

\* a step of send() called with this raw text that passed the guard
AcceptedSendOf(raw) ==
    /\ last'.op = "send" /\ last'.ok
    /\ \/ (Send /\ raw = input)
       \/ \E i \in 1..Len(messages), k \in 1..4 :
             SendFollowup(i, k) /\ raw = messages[i].followups[k]

RawTexts == Inputs \cup {<<"more">>}

\* C19 as stated: an accepted send(text) appends UserMessage{text} and a
\* new placeholder with a fresh local id, empty text, prompt = text and no
\* feedback, and changes no earlier message.
C19_Original ==
    [][\A raw \in RawTexts : AcceptedSendOf(raw) => AppendsTurn(raw)]_vars

\* C19 as amended: the same with the text trimmed: an accepted send(text)
\* appends UserMessage{trim(text)} and a placeholder with prompt =
\* trim(text).
C19_SendAppendsTurn ==
    [][\A raw \in RawTexts : AcceptedSendOf(raw) => AppendsTurn(Trim(raw))]_vars

C19_Witness ==
    /\ last.op = "send" /\ last.ok
    /\ nSends = 2
    /\ Len(messages) = 5
    /\ messages[3].id = "local1"
    /\ messages[3].text = <<"a", "b">>
    /\ messages[4] = UserMsg(<<"AAPL price?">>)
    /\ messages[5] = Placeholder("local2", <<"AAPL price?">>)

\* ------------------------------------------------------------------ C20
\* C20: at most one polling interval is active at any time, and whenever
\* the session is idle and the effect on isLoading has run for it, no
\* polling interval is active and the pending latency is 0.
C20_TimerTornDown ==
    /\ Cardinality(timer.intervals) <= 1
    /\ (~isLoading /\ EffectsFlushed) =>
          /\ timer.intervals = {}
          /\ timer.latency = 0

C20_Witness ==
    /\ ~isLoading /\ EffectsFlushed
    /\ nSends = 2
    /\ calls[2].pc = "done" /\ calls[2].exit = "readFail"
    /\ timer.made = 2
    /\ timer.intervals = {}
    /\ timer.latency = 0

\* ------------------------------------------------------------------ C21
\* the bytes up to the last frame terminator the boundary scan finds
RECURSIVE TerminatedPrefix(_)
TerminatedPrefix(bytes) ==
    LET boundary == IndexOfBoundary(bytes) IN
    IF boundary = 0 THEN <<>>
    ELSE SubSeq(bytes, 1, boundary + 1)
            \o TerminatedPrefix(SubSeq(bytes, boundary + 2, Len(bytes)))

\* the events and the conversation of the only send when these bytes are
\* all it ever reads, in one chunk
RunOn(call, bytes) ==
    LET st0 == [buffer |-> <<>>, pending |-> <<>>, streamingText |-> <<>>,
                cur |-> call.assistantId, finished |-> FALSE, threw |-> FALSE,
                events |-> <<>>,
                msgs |-> <<INITIAL_ASSISTANT, UserMsg(call.prompt),
                           Placeholder(call.assistantId, call.prompt)>>]
        st == Feed(st0, bytes, call.assistantId, CHOOSE l \in Latencies : TRUE)
    IN [events |-> st.events,
        msgs |-> IF st.threw THEN TextUpdate(st.msgs, call.assistantId, FALLBACK_ERROR)
                 ELSE st.msgs]

\* C21: only the frames whose blank-line terminator has been received are
\* applied: while the stream is read, and after the end of input, the
\* events and the conversation are those of the bytes received up to the
\* last terminator; the bytes behind it (a partial frame, or at end of
\* input an unterminated remainder, complete data line or not) change
\* nothing and produce no event.
C21_OnlyTerminatedFrames ==
    LET call == calls[1]
        received == IF call.pc = "read" THEN SubSeq(call.body, 1, call.sent)
                    ELSE call.body IN
    (call.pc = "read" \/ (call.pc = "done" /\ call.exit = "eof")) =>
        /\ call.events = RunOn(call, TerminatedPrefix(received)).events
        /\ messages = RunOn(call, TerminatedPrefix(received)).msgs

C21_Witness ==
    LET call == calls[1] IN
    /\ call.body = UnterminatedBody
    /\ call.pc = "done" /\ call.exit = "eof"
    /\ call.cuts = "mixed"
    /\ call.events = <<Event("delta", <<"a">>, "")>>
    /\ WireAnswer.text = <<"a">>


\* ------------------------------------------------------------------ C22
\* the positions of the End events among the events the send applied
EndEvents(call) == {i \in DOMAIN call.events : call.events[i].type = "end"}

\* C22: once End has been decoded the send has returned and isLoading is
\* false; End is the last event applied, whatever follows it in the body or
\* in the same chunk; and the conversation is that of a prefix of the body
\* that holds no End, so that End itself changed no message.
C22_EndStopsTheStream ==
    LET call == calls[1] IN
    EndEvents(call) /= {} =>
        /\ call.pc = "done" /\ call.exit = "end"
        /\ ~isLoading
        /\ EndEvents(call) = {Len(call.events)}
        /\ \E n \in 0..Len(call.body) :
            LET run == RunOn(call, SubSeq(call.body, 1, n)) IN
            /\ run.events = SubSeq(call.events, 1, Len(call.events) - 1)
            /\ run.msgs = messages

C22_Witness ==
    LET call == calls[1] IN
    /\ call.body = EndFrame \o DeltaFrame(<<"a">>)
    /\ call.cuts = "whole"
    /\ call.pc = "done" /\ call.exit = "end"
    /\ call.events = <<Event("end", <<>>, "")>>
    /\ WireAnswer.text = <<>>
    /\ ~isLoading


\* ------------------------------------------------------------------ C23
\* C23: a terminated frame that has no data line, a blank payload, a type
\* that is none of the four, or type delta with a delta that is not a
\* string is skipped: a body with such a frame between two delta frames
\* gives the events and the conversation of the two delta frames alone.
C23_SkippedFrames ==
    LET call == calls[1]
        plain == RunOn(call, DeltaFrame(<<"a">>) \o DeltaFrame(<<"b">>)) IN
    (/\ call.body \in {Between(f) : f \in SkippedFrames}
     /\ Consumed(call)) =>
        /\ call.events = plain.events
        /\ messages = plain.msgs
        /\ WireAnswer.text = <<"a", "b">>

C23_Witness ==
    LET call == calls[1] IN
    /\ call.body = Between(Frame(<<"{d#}">>))
    /\ call.pc = "done" /\ call.exit = "eof"
    /\ call.cuts = "mixed"
    /\ WireAnswer.text = <<"a", "b">>





\* ------------------------------------------------------------------ C24
\* C24: a payload that parses but is not an object (the literal null, a
\* number) is not fatal: a body with such a frame between two delta frames
\* gives the events and the conversation of the two delta frames alone, and
\* the text is not the fallback of a failed request.
C24_NonObjectNotFatal ==
    LET call == calls[1]
        plain == RunOn(call, DeltaFrame(<<"a">>) \o DeltaFrame(<<"b">>)) IN
    (/\ call.body \in {Between(f) : f \in NonObjectFrames}
     /\ Consumed(call)) =>
        /\ call.events = plain.events
        /\ messages = plain.msgs
        /\ WireAnswer.text = <<"a", "b">>
        /\ call.exit /= "threw"


\* ------------------------------------------------------------------ C25
\* C25: a message finalized by a Result is closed to text mutation: a Delta
\* applied on the same stream after the Result leaves the text of the
\* message as it was.
C25_FinalizedTextIsClosed ==
    [][(HadResult(calls[1]) /\ AppliedOne(1, "delta")) =>
            messages'[3].text = messages[3].text]_vars


\* ------------------------------------------------------------------ C26
\* text and payload fields of a message
Content(msg) ==
    [role |-> msg.role, text |-> msg.text, table |-> msg.table, chart |-> msg.chart,
     sql |-> msg.sql, followups |-> msg.followups, latencyMs |-> msg.latencyMs]

\* the messages a stream may not touch: the greeting, the user messages and
\* the assistant messages of earlier requests, that is every message but an
\* assistant message in the last position
Settled26(msgs) ==
    {i \in DOMAIN msgs : i = 1 \/ ~isAssistant(msgs[i]) \/ i < Len(msgs)}

\* C26: in every step other than clear(), whatever the stream delivers, the
\* greeting, every user message and every assistant message of an earlier
\* request keep their text and payload fields: only the most recent
\* assistant message is mutated.
C26_OnlyOwnMessageMutated ==
    [][Clear \/ \A i \in Settled26(messages) :
                    /\ i \in DOMAIN messages'
                    /\ Content(messages'[i]) = Content(messages[i])]_vars


\* ------------------------------------------------------------------ C27
\* a step that starts a feedback POST
StartsPost == Len(posts') = Len(posts) + 1

\* C27: a feedback POST is started only for a completed answer: never for
\* the greeting, never for a message whose text is empty, and never while
\* a request of the session is in flight (isLoading, or a send that has
\* not returned).
C27_RatingOnlyWhenCompleted ==
    [][StartsPost =>
        LET p == posts'[Len(posts')] IN
        /\ p.mi /= 1
        /\ messages[p.mi] /= INITIAL_ASSISTANT
        /\ isAssistant(messages[p.mi])
        /\ messages[p.mi].text /= <<>>
        /\ ~isLoading
        /\ ActiveCalls = {}]_vars

C27_Witness ==
    /\ last = RateStep(TRUE, 3, "up", "none")
    /\ Len(posts) = 1 /\ posts[1].status = "pending"
    /\ calls[1].pc = "done" /\ calls[1].exit = "eof"
    /\ messages[3].text = <<"a", "b">>
    /\ ActiveCalls = {}


\* ------------------------------------------------------------------ C28
\* C28: in every state the ids of the assistant messages of the
\* conversation are pairwise distinct, also after a Result whose messageId
\* equals an id already in the conversation.
C28_AssistantIdsDistinct ==
    \A i, j \in DOMAIN messages :
        (i /= j /\ isAssistant(messages[i]) /\ isAssistant(messages[j]))
            => messages[i].id /= messages[j].id


\* ------------------------------------------------------------------ C29
\* C29: once a Result has been applied, a read failure on the same stream
\* leaves the conversation as it was, whether or not the Result carried a
\* messageId, and resets isLoading.
C29_FailureAfterResult ==
    [][(HadResult(calls[1]) /\ ReadFail(1)) =>
            (messages' = messages /\ ~isLoading')]_vars


\* ------------------------------------------------------------------ C30
\* a step in which the POST of a rating is started, or the k-th POST ends
EndsPost(k) == posts[k].status = "pending" /\ posts'[k].status /= "pending"

\* the step changed nothing but, at most, the feedback of the assistant
\* messages with this id
Footprint(id) ==
    /\ Len(messages') = Len(messages)
    /\ \A i \in DOMAIN messages :
        IF Matches(messages[i], id)
        THEN [messages'[i] EXCEPT !.feedback = messages[i].feedback] = messages[i]
        ELSE messages'[i] = messages[i]
    /\ isLoading' = isLoading
    /\ calls' = calls
    /\ input' = input

\* C30: a rating changes at most the feedback field of the messages with
\* the rated id: the step that starts its POST changes no message, the step
\* that ends it, with success or failure, before or after a later send, its
\* stream or a clear, changes only that field; texts, ids, order, length
\* and isLoading are untouched, and the id is no longer busy once it ended.
C30_RateFootprint ==
    [][/\ StartsPost =>
            (/\ messages' = messages /\ isLoading' = isLoading /\ calls' = calls
             /\ posts'[Len(posts')].id \in feedbackLoading')
       /\ \A k \in DOMAIN posts :
            EndsPost(k) => (Footprint(posts[k].id) /\ posts[k].id \notin feedbackLoading')]_vars

\* the POST succeeded while the stream of the next send was being read
C30_Witness ==
    /\ Len(posts) = 1 /\ posts[1].status = "ok" /\ ~posts[1].stale
    /\ messages[3].feedback = "up"
    /\ messages[1].feedback = "none"
    /\ nSends = 2 /\ calls[2].pc = "read" /\ isLoading
    /\ Len(messages) = 5
    /\ feedbackLoading = {}

====
